---- MODULE Spec2Model ----
(***************************************************************************)
(* State-machine model of the cli-tetris game engine: board.py (Board),    *)
(* tetromino.py (Tetromino), game.py (TetrisGame) and the constants they   *)
(* import.  The engine is modelled as pure operators over a game record    *)
(* (one field per attribute of TetrisGame); every action applies one       *)
(* handler to the record built from the variables.                         *)
(*                                                                         *)
(* The board is scaled down (BOARD_WIDTH x BOARD_HEIGHT are bounds of the  *)
(* model, the program uses 10 x 20); START_X is derived from the width     *)
(* exactly as in constants.py.  Times are in units of 0.0001 second.       *)
(* random.choice is a nondeterministic choice from RandomKinds.            *)
(***************************************************************************)
EXTENDS Integers, Sequences, FiniteSets, TLC

\* ---------------------------------------------------------------- bounds
BOARD_WIDTH == 4
BOARD_HEIGHT == 4
\* at most MaxLocks pieces are locked in one game (reset by a restart)
MaxLocks == 2
\* at most MaxDrops timed drops of the game loop in one game
MaxDrops == 1

\* ------------------------------------------------------------- constants
INITIAL_SPEED == 10000
SPEED_INCREASE == 500
LEVEL_SPEED_INCREASE == 1000
MIN_SPEED == 500
POINTS_SINGLE == 100
POINTS_DOUBLE == 300
POINTS_TRIPLE == 500
POINTS_TETRIS == 800
LINES_PER_LEVEL == 10
START_X == (BOARD_WIDTH \div 2) - 1
START_Y == 0
WALL_KICK_ATTEMPTS == 3

KEY_QUIT == "q"
KEY_PAUSE == "p"
KEY_RESTART == "r"
KEY_LEFT == "left"
KEY_RIGHT == "right"
KEY_DOWN == "down"
KEY_DROP == "space"
KEY_ROTATE == "up"
KEY_HOLD == "h"

\* SCORING.get(n, 0): the points table game.py reads
SCORING(n) ==
  CASE n = 1 -> POINTS_SINGLE
    [] n = 2 -> POINTS_DOUBLE
    [] n = 3 -> POINTS_TRIPLE
    [] n = 4 -> POINTS_TETRIS
    [] OTHER -> 0

SHAPES ==
  [ I |-> << <<<<0,0>>, <<0,1>>, <<0,2>>, <<0,3>>>>,
             <<<<0,0>>, <<1,0>>, <<2,0>>, <<3,0>>>>,
             <<<<0,0>>, <<0,1>>, <<0,2>>, <<0,3>>>>,
             <<<<0,0>>, <<1,0>>, <<2,0>>, <<3,0>>>> >>,
    J |-> << <<<<0,0>>, <<1,0>>, <<1,1>>, <<1,2>>>>,
             <<<<0,0>>, <<0,1>>, <<1,0>>, <<2,0>>>>,
             <<<<0,0>>, <<0,1>>, <<0,2>>, <<1,2>>>>,
             <<<<0,1>>, <<1,1>>, <<2,0>>, <<2,1>>>> >>,
    L |-> << <<<<0,0>>, <<0,1>>, <<0,2>>, <<1,0>>>>,
             <<<<0,0>>, <<1,0>>, <<2,0>>, <<2,1>>>>,
             <<<<0,2>>, <<1,0>>, <<1,1>>, <<1,2>>>>,
             <<<<0,0>>, <<0,1>>, <<1,1>>, <<2,1>>>> >>,
    O |-> << <<<<0,0>>, <<0,1>>, <<1,0>>, <<1,1>>>>,
             <<<<0,0>>, <<0,1>>, <<1,0>>, <<1,1>>>>,
             <<<<0,0>>, <<0,1>>, <<1,0>>, <<1,1>>>>,
             <<<<0,0>>, <<0,1>>, <<1,0>>, <<1,1>>>> >>,
    S |-> << <<<<0,1>>, <<0,2>>, <<1,0>>, <<1,1>>>>,
             <<<<0,0>>, <<1,0>>, <<1,1>>, <<2,1>>>>,
             <<<<0,1>>, <<0,2>>, <<1,0>>, <<1,1>>>>,
             <<<<0,0>>, <<1,0>>, <<1,1>>, <<2,1>>>> >>,
    T |-> << <<<<0,1>>, <<1,0>>, <<1,1>>, <<1,2>>>>,
             <<<<0,0>>, <<1,0>>, <<1,1>>, <<2,0>>>>,
             <<<<0,0>>, <<0,1>>, <<0,2>>, <<1,1>>>>,
             <<<<0,1>>, <<1,0>>, <<1,1>>, <<2,1>>>> >>,
    Z |-> << <<<<0,0>>, <<0,1>>, <<1,1>>, <<1,2>>>>,
             <<<<0,1>>, <<1,0>>, <<1,1>>, <<2,0>>>>,
             <<<<0,0>>, <<0,1>>, <<1,1>>, <<1,2>>>>,
             <<<<0,1>>, <<1,0>>, <<1,1>>, <<2,0>>>> >> ]

\* the kinds random.choice draws from in the model (a subset of SHAPES.keys())
RandomKinds == {"I", "O"}

\* elapsed wall-clock time the game loop may observe since its last drop
ElapsedInputs == {0, INITIAL_SPEED}

\* wall-clock time that passes in one iteration of the game loop under the
\* tracked clock (its sleep and frame limiter; key handlers run meanwhile)
SleepTime == INITIAL_SPEED \div 2

\* time since last_update is tracked up to ElapsedCap, which no drop
\* interval of the model exceeds
ElapsedCap == INITIAL_SPEED

\* ------------------------------------------------------------- Tetromino
\* Tetromino.__init__: a piece is its kind, anchor and rotation index
Tetromino(shape_type, x, y, rotation) ==
  [shape_type |-> shape_type, x |-> x, y |-> y, rotation |-> rotation]

\* Python's None where a Tetromino is expected (hold_tetromino)
NoneT == Tetromino("None", 0, 0, 0)

\* Tetromino.get_coords: absolute cells, as a set of <<x, y>>
get_coords(t) ==
  LET shape == SHAPES[t.shape_type][t.rotation + 1]
  IN  { <<t.x + shape[i][1], t.y + shape[i][2]>> : i \in 1..Len(shape) }

\* Tetromino.move
move(t, dx, dy) == [t EXCEPT !.x = @ + dx, !.y = @ + dy]

\* Tetromino.rotate_clockwise
rotate_clockwise(t) == [t EXCEPT !.rotation = (@ + 1) % 4]

\* rotate_counterclockwise with a remainder that keeps the sign of rotation - 1
rotate_counterclockwise_truncating(t) ==
  [t EXCEPT !.rotation = IF @ - 1 < 0 THEN -((1 - @) % 4) ELSE (@ - 1) % 4]

\* Tetromino.rotate_counterclockwise
rotate_counterclockwise(t) == [t EXCEPT !.rotation = (@ - 1) % 4]

\* ----------------------------------------------------------------- Board
Rows == 0..(BOARD_HEIGHT - 1)
Cols == 0..(BOARD_WIDTH - 1)

\* Board.reset: the empty grid, grid[y][x], row 0 is the top
EmptyRow == [x \in Cols |-> "None"]
EmptyGrid == [y \in Rows |-> EmptyRow]

\* Board.is_valid_position
is_valid_position(grid, t) ==
  \A c \in get_coords(t) :
    /\ ~(c[1] < 0 \/ c[1] >= BOARD_WIDTH \/ c[2] < 0 \/ c[2] >= BOARD_HEIGHT)
    /\ ~(c[2] >= 0 /\ grid[c[2]][c[1]] /= "None")

\* place_tetromino that writes the piece's cells without testing the position
place_tetromino_unchecked(grid, t) ==
  [ok |-> TRUE,
   grid |-> [y \in Rows |-> [x \in Cols |->
              IF <<x, y>> \in get_coords(t) THEN t.shape_type
              ELSE grid[y][x]]]]

\* Board.place_tetromino: the returned flag and the grid afterwards
place_tetromino(grid, t) ==
  IF ~is_valid_position(grid, t)
  THEN [ok |-> FALSE, grid |-> grid]
  ELSE [ok |-> TRUE,
        grid |-> [y \in Rows |-> [x \in Cols |->
                   IF <<x, y>> \in get_coords(t) THEN t.shape_type
                   ELSE grid[y][x]]]]

\* row y removed and the empty row put below the others instead of on top
RemoveRow_insert_below(grid, y) ==
  [r \in Rows |-> IF r = BOARD_HEIGHT - 1 THEN EmptyRow
                  ELSE IF r >= y THEN grid[r + 1]
                  ELSE grid[r]]

\* grid.pop(y); grid.insert(0, [None] * width)
RemoveRow(grid, y) ==
  [r \in Rows |-> IF r = 0 THEN EmptyRow
                  ELSE IF r <= y THEN grid[r - 1]
                  ELSE grid[r]]

RowFull(grid, y) == \A x \in Cols : grid[y][x] /= "None"

\* the while loop of Board.clear_lines, from row y upwards
RECURSIVE ClearLoop(_, _, _)
ClearLoop(grid, y, n) ==
  IF y < 0 THEN [grid |-> grid, lines_cleared |-> n]
  ELSE IF RowFull(grid, y) THEN ClearLoop(RemoveRow(grid, y), y, n + 1)
  ELSE ClearLoop(grid, y - 1, n)

\* the loop of clear_lines moving on to row y - 1 after a removal
RECURSIVE ClearLoopNoRescan(_, _, _)
ClearLoopNoRescan(grid, y, n) ==
  IF y < 0 THEN [grid |-> grid, lines_cleared |-> n]
  ELSE IF RowFull(grid, y)
  THEN ClearLoopNoRescan(RemoveRow(grid, y), y - 1, n + 1)
  ELSE ClearLoopNoRescan(grid, y - 1, n)

\* clear_lines that does not look again at the index it removed a row from
clear_lines_no_rescan(grid) == ClearLoopNoRescan(grid, BOARD_HEIGHT - 1, 0)

\* Board.clear_lines: the grid afterwards and the returned count
clear_lines(grid) == ClearLoop(grid, BOARD_HEIGHT - 1, 0)

\* Board.is_game_over
is_game_over(grid) == \E x \in Cols : grid[0][x] /= "None"

\* constants.py COLORS: the colour of each kind and of an empty cell
COLORS ==
  [I |-> "#00FFFF", J |-> "#0000FF", L |-> "#FF7F00", O |-> "#FFFF00",
   S |-> "#00FF00", T |-> "#800080", Z |-> "#FF0000", EMPTY |-> "#000000"]

\* the position a Python list of length n gives for index i: a negative index
\* counts from the end, an index outside -n..n-1 raises IndexError (here n)
ListIndex(n, i) ==
  IF 0 <= i /\ i < n THEN i
  ELSE IF -n <= i /\ i < 0 THEN n + i
  ELSE n

\* self.grid[y][x] as Python evaluates it
GridAt(grid, x, y) ==
  LET yy == ListIndex(BOARD_HEIGHT, y)
      xx == ListIndex(BOARD_WIDTH, x)
  IN  IF yy = BOARD_HEIGHT \/ xx = BOARD_WIDTH THEN "IndexError"
      ELSE grid[yy][xx]

\* get_cell without the test of the coordinates
get_cell_unguarded(grid, x, y) == GridAt(grid, x, y)

\* Board.get_cell
get_cell(grid, x, y) ==
  IF ~(0 <= x /\ x < BOARD_WIDTH /\ 0 <= y /\ y < BOARD_HEIGHT)
  THEN "None"
  ELSE GridAt(grid, x, y)

\* Board.get_cell_color
get_cell_color(grid, x, y) ==
  IF ~(0 <= x /\ x < BOARD_WIDTH /\ 0 <= y /\ y < BOARD_HEIGHT)
  THEN COLORS["EMPTY"]
  ELSE LET cell_type == GridAt(grid, x, y)
       IN  IF cell_type /= "None" THEN COLORS[cell_type]
           ELSE COLORS["EMPTY"]


\* the while loop of Tetromino.get_ghost_position
RECURSIVE GhostLoop(_, _)
GhostLoop(grid, ghost) ==
  IF is_valid_position(grid, ghost) THEN GhostLoop(grid, move(ghost, 0, 1))
  ELSE ghost

\* Tetromino.get_ghost_position: clone, move down while valid, one step back
get_ghost_position(grid, t) == move(GhostLoop(grid, t), 0, -1)

\* ------------------------------------------------------------ TetrisGame
VARIABLES
  grid,                 \* board.grid
  current_tetromino,    \* the falling piece
  next_tetromino,       \* the previewed piece
  next_is_current,      \* current_tetromino and next_tetromino are one object
  hold_tetromino,       \* the held piece, NoneT when there is none
  ghost_tetromino,      \* the stored landing projection
  can_hold, score, level, lines_cleared, game_over, paused,
  speed,                \* the drop interval
  speed_increase, level_speed_increase, lines_per_level,
  loop_running,         \* game_loop is still inside its while loop
  elapsed,              \* time.time() - last_update of game_loop, capped
                        \* (tracked by ClockTick only)
  locks,                \* pieces locked in this game (bounded by MaxLocks)
  drops,                \* timed drops in this game (bounded by MaxDrops)
  last_op               \* what the last step did

gvars == <<grid, current_tetromino, next_tetromino, next_is_current,
           hold_tetromino, ghost_tetromino, can_hold, score, level,
           lines_cleared, game_over, paused, speed, speed_increase,
           level_speed_increase, lines_per_level>>

vars == <<gvars, loop_running, elapsed, locks, drops, last_op>>

\* the TetrisGame object as a record
G ==
  [grid |-> grid, current_tetromino |-> current_tetromino,
   next_tetromino |-> next_tetromino, next_is_current |-> next_is_current,
   hold_tetromino |-> hold_tetromino, ghost_tetromino |-> ghost_tetromino,
   can_hold |-> can_hold, score |-> score, level |-> level,
   lines_cleared |-> lines_cleared, game_over |-> game_over,
   paused |-> paused, speed |-> speed, speed_increase |-> speed_increase,
   level_speed_increase |-> level_speed_increase,
   lines_per_level |-> lines_per_level]

\* in-place mutation of the current piece: when next_tetromino is the same
\* object (after the first hold) the previewed piece changes with it
SetCurrent(g, t) ==
  [g EXCEPT !.current_tetromino = t,
            !.next_tetromino = IF g.next_is_current THEN t ELSE @]

\* TetrisGame._update_ghost_position
update_ghost_position(g) ==
  IF ~g.game_over
  THEN [g EXCEPT !.ghost_tetromino =
                   get_ghost_position(g.grid, g.current_tetromino)]
  ELSE g

\* TetrisGame._generate_tetromino with next_tetromino set: the previewed
\* object itself becomes the current piece
generate_tetromino(g) ==
  LET g1 == [g EXCEPT !.current_tetromino = g.next_tetromino,
                      !.next_is_current = TRUE]
      g2 == IF ~is_valid_position(g1.grid, g1.current_tetromino)
            THEN [g1 EXCEPT !.game_over = TRUE]
            ELSE g1
  IN  update_ghost_position(g2)

\* TetrisGame._generate_next_tetromino: Tetromino.random(x=0, y=0)
generate_next_tetromino(g, kind) ==
  [g EXCEPT !.next_tetromino = Tetromino(kind, 0, 0, 0),
            !.next_is_current = FALSE]

\* TetrisGame.__init__: kind1 is the first piece (Tetromino.random() at the
\* start position, next_tetromino being None), kind2 the previewed one
NewGame(kind1, kind2) ==
  LET first == Tetromino(kind1, START_X, START_Y, 0)
      g0 == [grid |-> EmptyGrid, current_tetromino |-> first,
             next_tetromino |-> NoneT, next_is_current |-> FALSE,
             hold_tetromino |-> NoneT, ghost_tetromino |-> NoneT,
             can_hold |-> TRUE, score |-> 0, level |-> 1,
             lines_cleared |-> 0,
             game_over |-> ~is_valid_position(EmptyGrid, first),
             paused |-> FALSE, speed |-> INITIAL_SPEED,
             speed_increase |-> SPEED_INCREASE,
             level_speed_increase |-> LEVEL_SPEED_INCREASE,
             lines_per_level |-> LINES_PER_LEVEL]
  IN  generate_next_tetromino(update_ghost_position(g0), kind2)

\* _update_score that awards the points without the level multiplier
update_score_flat(g, n) ==
  LET g1 == [g EXCEPT !.lines_cleared = @ + n]
      g2 == IF n > 0 THEN [g1 EXCEPT !.score = @ + SCORING(n)] ELSE g1
  IN  IF g2.lines_cleared >= g2.level * g2.lines_per_level
      THEN [g2 EXCEPT !.level = @ + 1,
                      !.speed = IF @ - g2.level_speed_increase > MIN_SPEED
                                THEN @ - g2.level_speed_increase
                                ELSE MIN_SPEED]
      ELSE g2

\* _update_score that levels up only beyond the threshold
update_score_late_levelup(g, n) ==
  LET g1 == [g EXCEPT !.lines_cleared = @ + n]
      g2 == IF n > 0 THEN [g1 EXCEPT !.score = @ + SCORING(n) * g1.level]
            ELSE g1
  IN  IF g2.lines_cleared > g2.level * g2.lines_per_level
      THEN [g2 EXCEPT !.level = @ + 1,
                      !.speed = IF @ - g2.level_speed_increase > MIN_SPEED
                                THEN @ - g2.level_speed_increase
                                ELSE MIN_SPEED]
      ELSE g2

\* _update_score that starts lines_cleared again at each level
update_score_resets_lines(g, n) ==
  LET g1 == [g EXCEPT !.lines_cleared = @ + n]
      g2 == IF n > 0 THEN [g1 EXCEPT !.score = @ + SCORING(n) * g1.level]
            ELSE g1
  IN  IF g2.lines_cleared >= g2.level * g2.lines_per_level
      THEN [g2 EXCEPT !.level = @ + 1,
                      !.lines_cleared = 0,
                      !.speed = IF @ - g2.level_speed_increase > MIN_SPEED
                                THEN @ - g2.level_speed_increase
                                ELSE MIN_SPEED]
      ELSE g2

\* _update_score that tests the threshold of the level after the current one
update_score_next_threshold(g, n) ==
  LET g1 == [g EXCEPT !.lines_cleared = @ + n]
      g2 == IF n > 0 THEN [g1 EXCEPT !.score = @ + SCORING(n) * g1.level]
            ELSE g1
  IN  IF g2.lines_cleared >= (g2.level + 1) * g2.lines_per_level
      THEN [g2 EXCEPT !.level = @ + 1,
                      !.speed = IF @ - g2.level_speed_increase > MIN_SPEED
                                THEN @ - g2.level_speed_increase
                                ELSE MIN_SPEED]
      ELSE g2

\* TetrisGame._update_score
update_score(g, n) ==
  LET g1 == [g EXCEPT !.lines_cleared = @ + n]
      g2 == IF n > 0 THEN [g1 EXCEPT !.score = @ + SCORING(n) * g1.level]
            ELSE g1
  IN  IF g2.lines_cleared >= g2.level * g2.lines_per_level
      THEN [g2 EXCEPT !.level = @ + 1,
                      !.speed = IF @ - g2.level_speed_increase > MIN_SPEED
                                THEN @ - g2.level_speed_increase
                                ELSE MIN_SPEED]
      ELSE g2

\* _lock_tetromino that makes a newly drawn piece current and leaves the
\* previewed one waiting
lock_tetromino_skips_preview(g, kind) ==
  LET placed == place_tetromino(g.grid, g.current_tetromino)
      cleared == clear_lines(placed.grid)
      g1 == update_score([g EXCEPT !.grid = cleared.grid],
                         cleared.lines_cleared)
      g2 == [g1 EXCEPT !.next_tetromino = Tetromino(kind, 0, 0, 0),
                       !.next_is_current = FALSE]
      g3 == generate_next_tetromino(generate_tetromino(g2),
                                    g.next_tetromino.shape_type)
  IN  [g3 EXCEPT !.can_hold = TRUE]

\* _lock_tetromino that clears the rows before it places the piece
lock_tetromino_clears_first(g, kind) ==
  LET cleared == clear_lines(g.grid)
      placed == place_tetromino(cleared.grid, g.current_tetromino)
      g1 == update_score([g EXCEPT !.grid = placed.grid],
                         cleared.lines_cleared)
      g2 == generate_next_tetromino(generate_tetromino(g1), kind)
  IN  [g2 EXCEPT !.can_hold = TRUE]


\* TetrisGame._lock_tetromino; kind is the newly drawn previewed piece
lock_tetromino(g, kind) ==
  LET placed == place_tetromino(g.grid, g.current_tetromino)
      cleared == clear_lines(placed.grid)
      g1 == update_score([g EXCEPT !.grid = cleared.grid],
                         cleared.lines_cleared)
      g2 == generate_next_tetromino(generate_tetromino(g1), kind)
  IN  [g2 EXCEPT !.can_hold = TRUE]

\* move_left that does not test the position it moves to
move_left_unchecked(g) ==
  IF g.game_over \/ g.paused THEN g
  ELSE update_ghost_position(SetCurrent(g, move(g.current_tetromino, -1, 0)))

\* TetrisGame.move_left
move_left(g) ==
  IF g.game_over \/ g.paused THEN g
  ELSE LET t == move(g.current_tetromino, -1, 0)
       IN  IF ~is_valid_position(g.grid, t) THEN g
           ELSE update_ghost_position(SetCurrent(g, t))

\* TetrisGame.move_right
move_right(g) ==
  IF g.game_over \/ g.paused THEN g
  ELSE LET t == move(g.current_tetromino, 1, 0)
       IN  IF ~is_valid_position(g.grid, t) THEN g
           ELSE update_ghost_position(SetCurrent(g, t))

\* TetrisGame.move_down: the game afterwards and the returned flag
move_down(g, kind) ==
  IF g.game_over \/ g.paused THEN [g |-> g, locked |-> FALSE]
  ELSE LET t == move(g.current_tetromino, 0, 1)
       IN  IF ~is_valid_position(g.grid, t)
           THEN [g |-> lock_tetromino(g, kind), locked |-> TRUE]
           ELSE [g |-> SetCurrent(g, t), locked |-> FALSE]

\* hard_drop that locks the piece where it is, without using the ghost
hard_drop_in_place(g, kind) ==
  IF g.game_over \/ g.paused THEN g
  ELSE lock_tetromino(g, kind)

\* TetrisGame.hard_drop (ghost_tetromino is always set after __init__)
hard_drop(g, kind) ==
  IF g.game_over \/ g.paused THEN g
  ELSE lock_tetromino(
         SetCurrent(g, [g.current_tetromino EXCEPT
                          !.x = g.ghost_tetromino.x,
                          !.y = g.ghost_tetromino.y]),
         kind)

\* first hold that stores the previewed kind instead of the current one
HoldFirst_stores_next(g) ==
  generate_tetromino(
    [g EXCEPT !.hold_tetromino =
       Tetromino(g.next_tetromino.shape_type, 0, 0, 0)])

\* hold_piece, nothing held yet: store the current kind, take the next piece
HoldFirst(g) ==
  generate_tetromino(
    [g EXCEPT !.hold_tetromino =
       Tetromino(g.current_tetromino.shape_type, 0, 0, 0)])

\* swap that puts the held kind where the current piece is
HoldSwap_in_place(g) ==
  [g EXCEPT
     !.current_tetromino =
        Tetromino(g.hold_tetromino.shape_type, g.current_tetromino.x,
                  g.current_tetromino.y, 0),
     !.next_is_current = FALSE,
     !.hold_tetromino = Tetromino(g.current_tetromino.shape_type, 0, 0, 0)]

\* hold_piece, a piece is held: swap it with the current one
HoldSwap(g) ==
  [g EXCEPT
     !.current_tetromino =
        Tetromino(g.hold_tetromino.shape_type, START_X, START_Y, 0),
     !.next_is_current = FALSE,
     !.hold_tetromino = Tetromino(g.current_tetromino.shape_type, 0, 0, 0)]

\* hold_piece that forgets to clear can_hold
hold_piece_keeps_can_hold(g) ==
  IF g.game_over \/ g.paused \/ ~g.can_hold THEN g
  ELSE update_ghost_position(
         IF g.hold_tetromino = NoneT THEN HoldFirst(g) ELSE HoldSwap(g))

\* hold_piece that does not test can_hold
hold_piece_unguarded(g) ==
  IF g.game_over \/ g.paused THEN g
  ELSE LET g1 == IF g.hold_tetromino = NoneT THEN HoldFirst(g)
                 ELSE HoldSwap(g)
       IN  update_ghost_position([g1 EXCEPT !.can_hold = FALSE])

\* TetrisGame.hold_piece
hold_piece(g) ==
  IF g.game_over \/ g.paused \/ ~g.can_hold THEN g
  ELSE LET g1 == IF g.hold_tetromino = NoneT THEN HoldFirst(g)
                 ELSE HoldSwap(g)
       IN  update_ghost_position([g1 EXCEPT !.can_hold = FALSE])

\* the wall-kick offsets of TetrisGame.rotate
KickOffsets == << <<-1, 0>>, <<1, 0>>, <<0, -1>>, <<-1, -1>>, <<1, -1>> >>

\* rotate that tries all five wall-kick offsets
rotate_five_kicks(g) ==
  IF g.game_over \/ g.paused THEN g
  ELSE LET orig == g.current_tetromino
           turned == rotate_clockwise(orig)
           Kicked(i) == [turned EXCEPT !.x = orig.x + KickOffsets[i][1],
                                       !.y = orig.y + KickOffsets[i][2]]
           ok == { i \in 1..Len(KickOffsets) :
                     is_valid_position(g.grid, Kicked(i)) }
       IN  IF is_valid_position(g.grid, turned)
           THEN update_ghost_position(SetCurrent(g, turned))
           ELSE IF ok /= {}
           THEN update_ghost_position(
                  SetCurrent(g, Kicked(CHOOSE i \in ok : \A j \in ok : i <= j)))
           ELSE g

\* rotate that goes to the wall kicks without trying the turn in place
rotate_kicks_only(g) ==
  IF g.game_over \/ g.paused THEN g
  ELSE LET orig == g.current_tetromino
           turned == rotate_clockwise(orig)
           Kicked(i) == [turned EXCEPT !.x = orig.x + KickOffsets[i][1],
                                       !.y = orig.y + KickOffsets[i][2]]
           tried == 1..(IF WALL_KICK_ATTEMPTS < Len(KickOffsets)
                        THEN WALL_KICK_ATTEMPTS ELSE Len(KickOffsets))
           ok == { i \in tried : is_valid_position(g.grid, Kicked(i)) }
       IN  IF ok /= {}
           THEN update_ghost_position(
                  SetCurrent(g, Kicked(CHOOSE i \in ok : \A j \in ok : i <= j)))
           ELSE g

\* TetrisGame.rotate
rotate(g) ==
  IF g.game_over \/ g.paused THEN g
  ELSE LET orig == g.current_tetromino
           turned == rotate_clockwise(orig)
           Kicked(i) == [turned EXCEPT !.x = orig.x + KickOffsets[i][1],
                                       !.y = orig.y + KickOffsets[i][2]]
           tried == 1..(IF WALL_KICK_ATTEMPTS < Len(KickOffsets)
                        THEN WALL_KICK_ATTEMPTS ELSE Len(KickOffsets))
           ok == { i \in tried : is_valid_position(g.grid, Kicked(i)) }
       IN  IF is_valid_position(g.grid, turned)
           THEN update_ghost_position(SetCurrent(g, turned))
           ELSE IF ok /= {}
           THEN update_ghost_position(
                  SetCurrent(g, Kicked(CHOOSE i \in ok : \A j \in ok : i <= j)))
           ELSE g

\* TetrisGame.toggle_pause
toggle_pause(g) == [g EXCEPT !.paused = ~@]

\* handle_input whose restart branch does not test game_over
handle_input_restart_unguarded(g, key, kind1, kind2) ==
  IF key = KEY_QUIT THEN g
  ELSE IF key = KEY_PAUSE THEN toggle_pause(g)
  ELSE IF ~g.paused /\ ~g.game_over
  THEN CASE key = KEY_LEFT -> move_left(g)
         [] key = KEY_RIGHT -> move_right(g)
         [] key = KEY_DOWN -> move_down(g, kind1).g
         [] key = KEY_DROP -> hard_drop(g, kind1)
         [] key = KEY_ROTATE -> rotate(g)
         [] key = KEY_HOLD -> hold_piece(g)
         [] OTHER -> g
  ELSE IF key = KEY_RESTART THEN NewGame(kind1, kind2)
  ELSE g

\* TetrisGame.handle_input; kind1 and kind2 are the random draws the call
\* may make (kind1 for a lock's new preview or a restart's first piece)
handle_input(g, key, kind1, kind2) ==
  IF key = KEY_QUIT THEN g
  ELSE IF key = KEY_PAUSE THEN toggle_pause(g)
  ELSE IF ~g.paused /\ ~g.game_over
  THEN CASE key = KEY_LEFT -> move_left(g)
         [] key = KEY_RIGHT -> move_right(g)
         [] key = KEY_DOWN -> move_down(g, kind1).g
         [] key = KEY_DROP -> hard_drop(g, kind1)
         [] key = KEY_ROTATE -> rotate(g)
         [] key = KEY_HOLD -> hold_piece(g)
         [] OTHER -> g
  ELSE IF g.game_over /\ key = KEY_RESTART THEN NewGame(kind1, kind2)
  ELSE g

\* TetrisGame.update (called from nowhere); since is
\* current_time - last_drop_time.  Gives the game afterwards and the time
\* since last_drop_time afterwards.
update(g, since, kind) ==
  IF g.paused \/ g.game_over THEN [g |-> g, since |-> since]
  ELSE IF since >= g.speed
  THEN LET g1 == move_down(g, kind).g
       IN  [g |-> [g1 EXCEPT !.speed =
                     IF @ - g1.speed_increase > MIN_SPEED
                     THEN @ - g1.speed_increase ELSE MIN_SPEED],
            since |-> 0]
  ELSE [g |-> g, since |-> since]

\* loop body that drops the piece but leaves last_update as it was
loop_body_keeps_last_update(g, since, kind) ==
  IF g.paused THEN [g |-> g, since |-> since]
  ELSE IF since >= g.speed
  THEN LET g1 == move_down(g, kind).g
       IN  [g |-> [g1 EXCEPT !.speed =
                     IF @ - g1.speed_increase > MIN_SPEED
                     THEN @ - g1.speed_increase ELSE MIN_SPEED],
            since |-> since]
  ELSE [g |-> g, since |-> since]

\* one pass of the body of TetrisGame.game_loop after its sleep; since is
\* current_time - last_update.  Gives the game afterwards and the time
\* since last_update afterwards.
loop_body(g, since, kind) ==
  IF g.paused THEN [g |-> g, since |-> since]
  ELSE IF since >= g.speed
  THEN LET g1 == move_down(g, kind).g
       IN  [g |-> [g1 EXCEPT !.speed =
                     IF @ - g1.speed_increase > MIN_SPEED
                     THEN @ - g1.speed_increase ELSE MIN_SPEED],
            since |-> 0]
  ELSE [g |-> g, since |-> since]

\* ---------------------------------------------------------------- actions
\* the variables take the fields of game record g
Set(g) ==
  /\ grid' = g.grid
  /\ current_tetromino' = g.current_tetromino
  /\ next_tetromino' = g.next_tetromino
  /\ next_is_current' = g.next_is_current
  /\ hold_tetromino' = g.hold_tetromino
  /\ ghost_tetromino' = g.ghost_tetromino
  /\ can_hold' = g.can_hold
  /\ score' = g.score
  /\ level' = g.level
  /\ lines_cleared' = g.lines_cleared
  /\ game_over' = g.game_over
  /\ paused' = g.paused
  /\ speed' = g.speed
  /\ speed_increase' = g.speed_increase
  /\ level_speed_increase' = g.level_speed_increase
  /\ lines_per_level' = g.lines_per_level

Playing(g) == ~g.game_over /\ ~g.paused

\* the state after TetrisGame(ui): main.py constructs the game, ui.run()
\* then starts game_loop
Init ==
  /\ \E kind1 \in RandomKinds, kind2 \in RandomKinds :
       /\ grid = NewGame(kind1, kind2).grid
       /\ current_tetromino = NewGame(kind1, kind2).current_tetromino
       /\ next_tetromino = NewGame(kind1, kind2).next_tetromino
       /\ next_is_current = NewGame(kind1, kind2).next_is_current
       /\ hold_tetromino = NewGame(kind1, kind2).hold_tetromino
       /\ ghost_tetromino = NewGame(kind1, kind2).ghost_tetromino
       /\ can_hold = NewGame(kind1, kind2).can_hold
       /\ score = NewGame(kind1, kind2).score
       /\ level = NewGame(kind1, kind2).level
       /\ lines_cleared = NewGame(kind1, kind2).lines_cleared
       /\ game_over = NewGame(kind1, kind2).game_over
       /\ paused = NewGame(kind1, kind2).paused
       /\ speed = NewGame(kind1, kind2).speed
       /\ speed_increase = NewGame(kind1, kind2).speed_increase
       /\ level_speed_increase = NewGame(kind1, kind2).level_speed_increase
       /\ lines_per_level = NewGame(kind1, kind2).lines_per_level
  /\ loop_running = TRUE
  /\ elapsed = 0
  /\ locks = 0
  /\ drops = 0
  /\ last_op = "init"

\* a kind argument for calls that make no random draw
NoDraw == "O"

\* handle_input(KEY_LEFT)
KeyLeft ==
  /\ Set(handle_input(G, KEY_LEFT, NoDraw, NoDraw))
  /\ last_op' = "step"
  /\ UNCHANGED <<loop_running, elapsed, locks, drops>>

\* handle_input(KEY_RIGHT)
KeyRight ==
  /\ Set(handle_input(G, KEY_RIGHT, NoDraw, NoDraw))
  /\ last_op' = "step"
  /\ UNCHANGED <<loop_running, elapsed, locks, drops>>

\* handle_input(KEY_ROTATE)
KeyRotate ==
  /\ Set(handle_input(G, KEY_ROTATE, NoDraw, NoDraw))
  /\ last_op' = "step"
  /\ UNCHANGED <<loop_running, elapsed, locks, drops>>

\* handle_input(KEY_DOWN); kind is the random draw of a lock
KeyDown ==
  IF move_down(G, NoDraw).locked
  THEN /\ locks < MaxLocks
       /\ \E kind \in RandomKinds :
            Set(handle_input(G, KEY_DOWN, kind, NoDraw))
       /\ locks' = locks + 1
       /\ last_op' = "lock_down"
       /\ UNCHANGED <<loop_running, elapsed, drops>>
  ELSE /\ Set(handle_input(G, KEY_DOWN, NoDraw, NoDraw))
       /\ last_op' = "step"
       /\ UNCHANGED <<loop_running, elapsed, locks, drops>>

\* handle_input(KEY_DROP); kind is the random draw of the lock
KeyDrop ==
  IF Playing(G)
  THEN /\ locks < MaxLocks
       /\ \E kind \in RandomKinds :
            Set(handle_input(G, KEY_DROP, kind, NoDraw))
       /\ locks' = locks + 1
       /\ last_op' = "lock_drop"
       /\ UNCHANGED <<loop_running, elapsed, drops>>
  ELSE /\ Set(handle_input(G, KEY_DROP, NoDraw, NoDraw))
       /\ last_op' = "step"
       /\ UNCHANGED <<loop_running, elapsed, locks, drops>>

\* handle_input(KEY_HOLD)
KeyHold ==
  /\ Set(handle_input(G, KEY_HOLD, NoDraw, NoDraw))
  /\ last_op' = IF Playing(G) /\ can_hold
                THEN (IF hold_tetromino = NoneT THEN "hold_first"
                      ELSE "hold_swap")
                ELSE "step"
  /\ UNCHANGED <<loop_running, elapsed, locks, drops>>

\* handle_input(KEY_PAUSE)
KeyPause ==
  /\ Set(handle_input(G, KEY_PAUSE, NoDraw, NoDraw))
  /\ last_op' = "step"
  /\ UNCHANGED <<loop_running, elapsed, locks, drops>>

\* handle_input(KEY_RESTART); kind1, kind2 are the random draws of __init__
KeyRestart ==
  IF game_over
  THEN /\ \E kind1 \in RandomKinds, kind2 \in RandomKinds :
            Set(handle_input(G, KEY_RESTART, kind1, kind2))
       /\ locks' = 0
       /\ drops' = 0
       /\ last_op' = "restart"
       /\ UNCHANGED <<loop_running, elapsed>>
  ELSE /\ Set(handle_input(G, KEY_RESTART, NoDraw, NoDraw))
       /\ last_op' = "step"
       /\ UNCHANGED <<loop_running, elapsed, locks, drops>>

\* one iteration of game_loop: resumed after its sleep it runs the body,
\* then re-evaluates `while not self.game_over`; since is
\* current_time - last_update as the iteration reads it
TickWith(since) ==
  /\ loop_running
  /\ IF ~paused /\ since >= speed
     THEN /\ drops < MaxDrops
          /\ drops' = drops + 1
          /\ IF move_down(G, NoDraw).locked
             THEN /\ locks < MaxLocks
                  /\ \E kind \in RandomKinds :
                       /\ Set(loop_body(G, since, kind).g)
                       /\ loop_running' = ~loop_body(G, since, kind).g.game_over
                  /\ locks' = locks + 1
                  /\ last_op' = "lock_tick"
             ELSE /\ Set(loop_body(G, since, NoDraw).g)
                  /\ loop_running' = ~game_over
                  /\ last_op' = "step"
                  /\ UNCHANGED locks
     ELSE /\ Set(loop_body(G, since, NoDraw).g)
          /\ loop_running' = ~game_over
          /\ last_op' = "step"
          /\ UNCHANGED <<locks, drops>>

\* a loop iteration under a clock that is not tracked: the iteration may
\* read any time in ElapsedInputs
Tick ==
  /\ \E since \in ElapsedInputs : TickWith(since)
  /\ UNCHANGED elapsed

Next ==
  \/ KeyLeft
  \/ KeyRight
  \/ KeyRotate
  \/ KeyDown
  \/ KeyDrop
  \/ KeyHold
  \/ KeyPause
  \/ KeyRestart
  \/ Tick

Spec == Init /\ [][Next]_vars

\* ------------------------------------------------- a configured session
\* config.DIFFICULTY_PRESETS (times in units of 0.0001 second)
DIFFICULTY_PRESETS ==
  [ easy   |-> [initial_speed |-> 12000, speed_increase |-> 3,
                level_speed_increase |-> 800, lines_per_level |-> 12],
    normal |-> [initial_speed |-> 10000, speed_increase |-> 5,
                level_speed_increase |-> 1000, lines_per_level |-> 10],
    hard   |-> [initial_speed |-> 8000, speed_increase |-> 8,
                level_speed_increase |-> 1200, lines_per_level |-> 8],
    expert |-> [initial_speed |-> 6000, speed_increase |-> 10,
                level_speed_increase |-> 1500, lines_per_level |-> 6] ]

\* a command-line argument that was not given (args.level, args.speed None)
NoArg == -1

\* main(): the settings applied to the game just constructed; args holds the
\* difficulty, --level and --speed (the model's sessions keep the division
\* exact)
configure(g, args) ==
  LET preset == DIFFICULTY_PRESETS[args.difficulty]
      lvl == IF args.level /= NoArg THEN args.level ELSE 1
      base == IF args.speed /= NoArg THEN args.speed ELSE preset.initial_speed
  IN  [g EXCEPT !.level = lvl,
                !.speed = base \div lvl,
                !.speed_increase = preset.speed_increase,
                !.level_speed_increase = preset.level_speed_increase,
                !.lines_per_level = preset.lines_per_level]

\* the command lines of the model's sessions: the default one, expert from
\* level 2, and --speed 0.0502 and --speed 0.04
SessionArgs ==
  { [difficulty |-> "normal", level |-> NoArg, speed |-> NoArg],
    [difficulty |-> "expert", level |-> 2, speed |-> NoArg],
    [difficulty |-> "normal", level |-> NoArg, speed |-> 502],
    [difficulty |-> "normal", level |-> NoArg, speed |-> 400] }

\* a sequence of key presses, each <<key, kind>> with the kind drawn for the
\* new preview if the key locks a piece, handled one after the other
RECURSIVE Play(_, _)
Play(g, keys) ==
  IF keys = <<>> THEN g
  ELSE LET g1 == handle_input(g, Head(keys)[1], Head(keys)[2], NoDraw)
       IN  IF g1.paused \in BOOLEAN THEN Play(g1, Tail(keys)) ELSE g1

\* keys repeated n times
RECURSIVE Times(_, _)
Times(keys, n) == IF n = 0 THEN <<>> ELSE keys \o Times(keys, n - 1)

\* the piece is pushed to the right wall and dropped; an I is drawn
ColumnDrop ==
  [i \in 1..BOARD_WIDTH |-> <<KEY_RIGHT, NoDraw>>] \o << <<KEY_DROP, "I">> >>

\* upright I pieces fill every column but the leftmost
AlmostTetris == Times(ColumnDrop, BOARD_WIDTH - 1)

\* ... and one more I in the leftmost column clears four rows
FullTetris == AlmostTetris \o << <<KEY_DROP, "I">> >>

\* an L turned three times and dropped, an O dropped to its right
AlmostTriple ==
  << <<KEY_ROTATE, NoDraw>>, <<KEY_ROTATE, NoDraw>>, <<KEY_ROTATE, NoDraw>>,
     <<KEY_DROP, "L">>, <<KEY_RIGHT, NoDraw>>, <<KEY_RIGHT, NoDraw>>,
     <<KEY_DROP, "I">> >>

\* the openings of the model's sessions: the first two kinds drawn and the
\* keys played before the session is explored
Openings ==
  { [kind1 |-> "I", kind2 |-> "I", keys |-> <<>>],
    [kind1 |-> "O", kind2 |-> "I", keys |-> <<>>],
    [kind1 |-> "I", kind2 |-> "I", keys |-> << <<KEY_DROP, "I">> >>],
    [kind1 |-> "L", kind2 |-> "O", keys |-> AlmostTriple],
    [kind1 |-> "I", kind2 |-> "I", keys |-> AlmostTetris],
    [kind1 |-> "I", kind2 |-> "I", keys |-> FullTetris \o AlmostTetris],
    [kind1 |-> "I", kind2 |-> "I",
     keys |-> FullTetris \o FullTetris \o AlmostTetris] }

\* the game of a session after its opening
Opened(args, opening) ==
  Play(configure(NewGame(opening.kind1, opening.kind2), args), opening.keys)

\* a session: main() constructs and configures the game, game_loop runs,
\* the opening has been played with no timed drop; one more piece may be
\* locked before the cap
SessionInit ==
  /\ \E args \in SessionArgs, opening \in Openings :
       /\ grid = Opened(args, opening).grid
       /\ current_tetromino = Opened(args, opening).current_tetromino
       /\ next_tetromino = Opened(args, opening).next_tetromino
       /\ next_is_current = Opened(args, opening).next_is_current
       /\ hold_tetromino = Opened(args, opening).hold_tetromino
       /\ ghost_tetromino = Opened(args, opening).ghost_tetromino
       /\ can_hold = Opened(args, opening).can_hold
       /\ score = Opened(args, opening).score
       /\ level = Opened(args, opening).level
       /\ lines_cleared = Opened(args, opening).lines_cleared
       /\ game_over = Opened(args, opening).game_over
       /\ paused = Opened(args, opening).paused
       /\ speed = Opened(args, opening).speed
       /\ speed_increase = Opened(args, opening).speed_increase
       /\ level_speed_increase = Opened(args, opening).level_speed_increase
       /\ lines_per_level = Opened(args, opening).lines_per_level
       /\ last_op = IF opening.keys = <<>> THEN "init" ELSE "lock_drop"
  /\ loop_running = TRUE
  /\ elapsed = 0
  /\ locks = MaxLocks - 1
  /\ drops = 0

\* the time since last_update once another SleepTime has passed
Slept == IF elapsed + SleepTime > ElapsedCap THEN ElapsedCap
         ELSE elapsed + SleepTime

\* a loop iteration under the tracked clock: SleepTime has passed since the
\* previous one; last_update is a local of game_loop and is gone when the
\* loop is left
ClockTick ==
  /\ TickWith(Slept)
  /\ elapsed' = IF loop_running' THEN loop_body(G, Slept, NoDraw).since ELSE 0

\* handle_input(KEY_RESTART) in a session, whose caps on locks and timed
\* drops count over the whole session
SessionRestart ==
  /\ IF game_over
     THEN /\ \E kind1 \in RandomKinds, kind2 \in RandomKinds :
               Set(handle_input(G, KEY_RESTART, kind1, kind2))
          /\ last_op' = "restart"
     ELSE /\ Set(handle_input(G, KEY_RESTART, NoDraw, NoDraw))
          /\ last_op' = "step"
  /\ UNCHANGED <<loop_running, elapsed, locks, drops>>

SessionNext ==
  \/ KeyLeft
  \/ KeyRight
  \/ KeyRotate
  \/ KeyDown
  \/ KeyDrop
  \/ KeyHold
  \/ KeyPause
  \/ SessionRestart
  \/ ClockTick

SessionSpec == SessionInit /\ [][SessionNext]_vars

\* --------------------------------------------- a game of all seven kinds
\* SHAPES.keys(): the kinds random.choice draws from in the program
AllKinds == {"I", "J", "L", "O", "S", "T", "Z"}

\* a game whose first two pieces are of any kind; one piece may be locked
\* before the cap
KindsInit ==
  /\ \E kind1 \in AllKinds, kind2 \in AllKinds :
       /\ grid = NewGame(kind1, kind2).grid
       /\ current_tetromino = NewGame(kind1, kind2).current_tetromino
       /\ next_tetromino = NewGame(kind1, kind2).next_tetromino
       /\ next_is_current = NewGame(kind1, kind2).next_is_current
       /\ hold_tetromino = NewGame(kind1, kind2).hold_tetromino
       /\ ghost_tetromino = NewGame(kind1, kind2).ghost_tetromino
       /\ can_hold = NewGame(kind1, kind2).can_hold
       /\ score = NewGame(kind1, kind2).score
       /\ level = NewGame(kind1, kind2).level
       /\ lines_cleared = NewGame(kind1, kind2).lines_cleared
       /\ game_over = NewGame(kind1, kind2).game_over
       /\ paused = NewGame(kind1, kind2).paused
       /\ speed = NewGame(kind1, kind2).speed
       /\ speed_increase = NewGame(kind1, kind2).speed_increase
       /\ level_speed_increase = NewGame(kind1, kind2).level_speed_increase
       /\ lines_per_level = NewGame(kind1, kind2).lines_per_level
  /\ loop_running = TRUE
  /\ elapsed = 0
  /\ locks = MaxLocks - 1
  /\ drops = 0
  /\ last_op = "init"

\* the keys that move, turn and drop the piece
KindsNext ==
  \/ KeyLeft
  \/ KeyRight
  \/ KeyRotate
  \/ KeyDown
  \/ KeyDrop

KindsSpec == KindsInit /\ [][KindsNext]_vars

\* ------------------------------------- Board and Tetromino on their own
\* the variables of TetrisGame that a Board or Tetromino used on its own
\* leaves at their values
gamevars == <<next_tetromino, next_is_current, hold_tetromino,
              ghost_tetromino, can_hold, score, level, game_over, paused,
              speed, speed_increase, level_speed_increase, lines_per_level,
              loop_running, elapsed, drops>>

\* no game is running around the object under test
NoGame ==
  /\ next_tetromino = NoneT
  /\ next_is_current = FALSE
  /\ hold_tetromino = NoneT
  /\ ghost_tetromino = NoneT
  /\ can_hold = TRUE
  /\ score = 0
  /\ level = 1
  /\ game_over = FALSE
  /\ paused = FALSE
  /\ speed = INITIAL_SPEED
  /\ speed_increase = SPEED_INCREASE
  /\ level_speed_increase = LEVEL_SPEED_INCREASE
  /\ lines_per_level = LINES_PER_LEVEL
  /\ loop_running = FALSE
  /\ elapsed = 0
  /\ drops = 0

\* the rows the boards under test are made of: an empty row, a full row and
\* two partial rows that differ
RowInputs ==
  { EmptyRow,
    [x \in Cols |-> "I"],
    [x \in Cols |-> IF x = 0 THEN "J" ELSE "None"],
    [x \in Cols |-> IF x = 0 THEN "None" ELSE "L"] }

\* Board.grid of the boards under test
GridInputs == [Rows -> RowInputs]

\* the pieces passed to the Board: every kind and rotation, anchors from one
\* cell outside the board on each side
PieceInputs ==
  { Tetromino(k, x, y, r) : k \in AllKinds, x \in -1..BOARD_WIDTH,
                            y \in -1..BOARD_HEIGHT, r \in 0..3 }

\* a Board whose grid is any of GridInputs; one piece may be placed on it
BoardInit ==
  /\ grid \in GridInputs
  /\ current_tetromino = NoneT
  /\ lines_cleared = 0
  /\ locks = MaxLocks - 1
  /\ last_op = "init"
  /\ NoGame

\* board.place_tetromino(t)
BoardPlace ==
  /\ locks < MaxLocks
  /\ \E t \in PieceInputs :
       /\ grid' = place_tetromino(grid, t).grid
       /\ last_op' = IF place_tetromino(grid, t).ok THEN "place"
                     ELSE "place_refused"
  /\ locks' = locks + 1
  /\ UNCHANGED <<current_tetromino, lines_cleared, gamevars>>

\* board.clear_lines(), the returned count added to lines_cleared as
\* _lock_tetromino and _update_score do
BoardClear ==
  /\ grid' = clear_lines(grid).grid
  /\ lines_cleared' = lines_cleared + clear_lines(grid).lines_cleared
  /\ last_op' = "clear_lines"
  /\ UNCHANGED <<current_tetromino, locks, gamevars>>

BoardNext ==
  \/ BoardPlace
  \/ BoardClear

BoardSpec == BoardInit /\ [][BoardNext]_vars

\* a Tetromino of any kind and rotation at the start position
PieceInit ==
  /\ \E k \in AllKinds, r \in 0..3 :
       current_tetromino = Tetromino(k, START_X, START_Y, r)
  /\ grid = EmptyGrid
  /\ lines_cleared = 0
  /\ locks = 0
  /\ last_op = "init"
  /\ NoGame

\* the rest of a step of the piece on its own; the piece is kept within one
\* cell of the board
PieceStep(op) ==
  /\ current_tetromino' \in PieceInputs
  /\ last_op' = op
  /\ UNCHANGED <<grid, lines_cleared, locks, gamevars>>

\* tetromino.rotate_clockwise()
PieceRotateClockwise ==
  /\ current_tetromino' = rotate_clockwise(current_tetromino)
  /\ PieceStep("rotate_clockwise")

\* tetromino.rotate_counterclockwise()
PieceRotateCounterclockwise ==
  /\ current_tetromino' = rotate_counterclockwise(current_tetromino)
  /\ PieceStep("rotate_counterclockwise")

\* tetromino.move_left(), move_right(), move_down()
PieceMove ==
  /\ \E d \in {<<-1, 0>>, <<1, 0>>, <<0, 1>>} :
       current_tetromino' = move(current_tetromino, d[1], d[2])
  /\ PieceStep("move")

PieceNext ==
  \/ PieceRotateClockwise
  \/ PieceRotateCounterclockwise
  \/ PieceMove

PieceSpec == PieceInit /\ [][PieceNext]_vars


\* ------------------------------------------------------------ properties
SpawnOps == {"lock_down", "lock_drop", "lock_tick", "hold_first", "hold_swap"}
LockOps == {"lock_down", "lock_drop", "lock_tick"}
HoldOps == {"hold_first", "hold_swap"}

\* a cell of piece t lies on an Occupied board cell or outside the x-bounds
Overlaps(t) ==
  \E c \in get_coords(t) :
    \/ c[1] \notin Cols
    \/ (c[2] \in Rows /\ grid[c[2]][c[1]] /= "None")

\* C1: in every reachable state where game_over is false, no cell of the
\* current piece lies on an Occupied board cell or outside x in [0, width).
C1_CurrentNeverOverlaps == ~game_over => ~Overlaps(current_tetromino)

\* C2: game_over turns from false to true exactly in the steps that spawn a
\* current piece (by a lock or by hold) at an invalid position.
C2_GameOverIffInvalidSpawn ==
  [][ (~game_over /\ game_over')
        <=> (/\ last_op' \in SpawnOps
             /\ ~is_valid_position(grid', current_tetromino')) ]_vars

\* C3: a piece spawned while row 0 holds an Occupied cell sets game_over,
\* and spawning leaves every board cell unchanged.
C3_TopRowSpawnEndsGame ==
  /\ (last_op \in SpawnOps /\ is_game_over(grid)) => game_over
  /\ generate_tetromino(G).grid = grid

\* C4: every newly spawned current piece (the first one, the one after a
\* lock, the one after either hold branch) has rotation 0 and its anchor at
\* (START_X, START_Y).
C4_SpawnAtStart ==
  last_op \in SpawnOps \cup {"init", "restart"} =>
    /\ current_tetromino.rotation = 0
    /\ current_tetromino.x = START_X
    /\ current_tetromino.y = START_Y

\* piece t moved to row y
AtRow(t, y) == [t EXCEPT !.y = y]

\* C5: while game_over is false the stored ghost has the current piece's
\* kind, x and rotation, and its y is the landing row: the piece is valid at
\* every row from its own down to the ghost's, and not one row further.
C5_GhostIsLandingRow ==
  ~game_over =>
    /\ ghost_tetromino.shape_type = current_tetromino.shape_type
    /\ ghost_tetromino.x = current_tetromino.x
    /\ ghost_tetromino.rotation = current_tetromino.rotation
    /\ ghost_tetromino.y >= current_tetromino.y
    /\ \A y \in current_tetromino.y..ghost_tetromino.y :
         is_valid_position(grid, AtRow(current_tetromino, y))
    /\ ~is_valid_position(grid, AtRow(current_tetromino, ghost_tetromino.y + 1))

\* C6: the ghost of a piece that is at an invalid position is the piece at
\* its unchanged position.
C6_GhostOfInvalidUnchanged ==
  (~game_over /\ ~is_valid_position(grid, current_tetromino)) =>
    /\ ghost_tetromino = get_ghost_position(grid, current_tetromino)
    /\ ghost_tetromino = current_tetromino

\* move_down repeated until it reports a lock (g is in play)
RECURSIVE MoveDownUntilLock(_, _)
MoveDownUntilLock(g, kind) ==
  LET r == move_down(g, kind)
  IN  IF r.locked THEN r.g ELSE MoveDownUntilLock(r.g, kind)

\* the part of the game the outcome of a drop is compared on
DropOutcome(g) ==
  <<g.grid, g.score, g.level, g.lines_cleared, g.can_hold, g.game_over,
    g.current_tetromino, g.next_tetromino>>

C8_CanHoldResetOnlyByLock ==
  [][ /\ last_op' \in HoldOps => ~can_hold'
      /\ (~can_hold /\ can_hold') => last_op' \in LockOps \cup {"restart"} ]_vars

\* a piece was held and a later lock has made holding possible again
C8_Witness ==
  /\ hold_tetromino /= NoneT
  /\ can_hold
  /\ last_op \in LockOps
  /\ ~game_over

\* C9: a second hold directly after a hold leaves the whole game as the
\* first hold left it.
C9_SecondHoldChangesNothing ==
  LET once == handle_input(G, KEY_HOLD, NoDraw, NoDraw)
  IN  handle_input(once, KEY_HOLD, NoDraw, NoDraw) = once

\* a hold has just taken effect and the game is still in play
C9_Witness ==
  /\ last_op \in HoldOps
  /\ Playing(G)
  /\ handle_input(G, KEY_HOLD, NoDraw, NoDraw) = G

\* C10: hold with can_hold true and nothing held stores the current kind as
\* held and makes the previewed kind current; board, score, level and
\* lines_cleared stay as they were.
C10_FirstHoldTakesNext ==
  (Playing(G) /\ can_hold /\ hold_tetromino = NoneT) =>
    LET held == handle_input(G, KEY_HOLD, NoDraw, NoDraw)
    IN  /\ held.hold_tetromino.shape_type = current_tetromino.shape_type
        /\ held.current_tetromino.shape_type = next_tetromino.shape_type
        /\ held.grid = grid
        /\ held.score = score
        /\ held.level = level
        /\ held.lines_cleared = lines_cleared

\* the first hold of a game has just happened, with a piece of another kind
\* than the previewed one
C10_Witness ==
  /\ last_op = "hold_first"
  /\ hold_tetromino.shape_type /= current_tetromino.shape_type

\* C11: hold with can_hold true and a piece held makes the current piece a
\* fresh piece of the held kind at (START_X, START_Y) with rotation 0, makes
\* the held kind the previous current kind, and leaves the next piece and
\* the board as they were.
C11_HoldSwapsKinds ==
  (Playing(G) /\ can_hold /\ hold_tetromino /= NoneT) =>
    LET held == handle_input(G, KEY_HOLD, NoDraw, NoDraw)
    IN  /\ held.current_tetromino =
             Tetromino(hold_tetromino.shape_type, START_X, START_Y, 0)
        /\ held.hold_tetromino.shape_type = current_tetromino.shape_type
        /\ held.next_tetromino = next_tetromino
        /\ held.grid = grid

\* a swap has just happened between pieces of different kinds, away from
\* where the swapped-out piece was
C11_Witness ==
  /\ last_op = "hold_swap"
  /\ hold_tetromino.shape_type /= current_tetromino.shape_type
  /\ current_tetromino.x = START_X
  /\ ghost_tetromino.y > START_Y

\* the keys of the movement, rotation, drop and hold actions
MoveKeys == {KEY_LEFT, KEY_RIGHT, KEY_DOWN, KEY_DROP, KEY_ROTATE, KEY_HOLD}

\* C12: when the game is paused or over, move_left, move_right, move_down,
\* rotate, hard_drop, hold (called directly or through their keys) and the
\* periodic tick of the running game loop leave the whole game unchanged,
\* and move_down reports that nothing was locked.
C12_NoOpsOutsidePlay ==
  ~Playing(G) =>
    /\ move_left(G) = G
    /\ move_right(G) = G
    /\ rotate(G) = G
    /\ hold_piece(G) = G
    /\ \A kind \in RandomKinds :
         /\ move_down(G, kind) = [g |-> G, locked |-> FALSE]
         /\ hard_drop(G, kind) = G
         /\ \A key \in MoveKeys : handle_input(G, key, kind, kind) = G
         /\ loop_running =>
              \A since \in ElapsedInputs : loop_body(G, since, kind).g = G

\* C13: the pause key changes nothing but the paused flag, a second pause
\* key restores the state, and with the game over the pause key changes
\* nothing, so that paused and game_over are never both true.
C13_PauseTogglesPlayOnly ==
  LET once == handle_input(G, KEY_PAUSE, NoDraw, NoDraw)
  IN  /\ ~(paused /\ game_over)
      /\ game_over => once = G
      /\ ~game_over => once = [G EXCEPT !.paused = ~paused]
      /\ ~game_over => handle_input(once, KEY_PAUSE, NoDraw, NoDraw) = G

\* C14: with the game over the restart key gives a fresh game in play: empty
\* board, score 0, level 1, lines_cleared 0, nothing held, can_hold true,
\* paused false, game_over false and the drop interval INITIAL_SPEED; with
\* the game not over the restart key changes nothing.
C14_RestartOnlyWhenOver ==
  \A kind1 \in RandomKinds, kind2 \in RandomKinds :
    LET fresh == handle_input(G, KEY_RESTART, kind1, kind2)
    IN  IF game_over
        THEN /\ fresh.grid = EmptyGrid
             /\ fresh.score = 0
             /\ fresh.level = 1
             /\ fresh.lines_cleared = 0
             /\ fresh.hold_tetromino = NoneT
             /\ fresh.can_hold
             /\ ~fresh.paused
             /\ ~fresh.game_over
             /\ fresh.speed = INITIAL_SPEED
        ELSE fresh = G

\* a session has just been restarted
C14_Witness ==
  /\ last_op = "restart"
  /\ level = 1
  /\ ~game_over
  /\ grid = EmptyGrid

\* C15: the per-tick speed increment, the per-level speed increment and the
\* lines required per level keep the values the session was configured
\* with, across every operation, restart included.
C15_DifficultyKept ==
  [][ /\ speed_increase' = speed_increase
      /\ level_speed_increase' = level_speed_increase
      /\ lines_per_level' = lines_per_level ]_vars

\* the points of the claims' table for n rows cleared by one lock
PointsTable(n) ==
  CASE n = 0 -> 0
    [] n = 1 -> 100
    [] n = 2 -> 300
    [] n = 3 -> 500
    [] n = 4 -> 800

\* the number of rows that are complete once piece t is placed on the board
RowsCompletedBy(t) ==
  Cardinality({ y \in Rows : RowFull(place_tetromino(grid, t).grid, y) })

\* the current piece at the position of the stored ghost
Landed ==
  [current_tetromino EXCEPT !.x = ghost_tetromino.x, !.y = ghost_tetromino.y]

\* C16: a lock that completes n rows adds PointsTable(n) times the level
\* held before the lock to the score and n to lines_cleared, for a hard drop
\* and for a move_down that locks; at level 1 with 10 lines per level and no
\* line cleared before, a lock that completes 4 rows adds 800 points, makes
\* lines_cleared 4 and leaves the level at 1.
C16_ScoreOnLock ==
  Playing(G) =>
    \A kind \in RandomKinds :
      LET dropped == hard_drop(G, kind)
          n == RowsCompletedBy(Landed)
          down == move_down(G, kind)
          m == RowsCompletedBy(current_tetromino)
      IN  /\ dropped.score = score + PointsTable(n) * level
          /\ dropped.lines_cleared = lines_cleared + n
          /\ down.locked =>
               /\ down.g.score = score + PointsTable(m) * level
               /\ down.g.lines_cleared = lines_cleared + m
          /\ (n = 4 /\ level = 1 /\ lines_per_level = 10 /\ lines_cleared = 0) =>
               /\ dropped.score = score + 800
               /\ dropped.lines_cleared = 4
               /\ dropped.level = 1

\* a lock at level 1 with 10 lines per level has just cleared four rows, the
\* first of the session
C16_Witness ==
  /\ last_op \in LockOps
  /\ grid = EmptyGrid
  /\ score = 800
  /\ lines_cleared = 4
  /\ level = 1
  /\ lines_per_level = 10

\* the larger of two numbers
Larger(a, b) == IF a > b THEN a ELSE b

\* the level and drop interval of game after are those the level-up rule
\* gives for a lock that completes k rows
LevelRule(after, k) ==
  IF lines_cleared + k >= level * lines_per_level
  THEN /\ after.level = level + 1
       /\ after.speed = Larger(MIN_SPEED, speed - level_speed_increase)
  ELSE /\ after.level = level
       /\ after.speed = speed

\* C17: on a lock (by a hard drop or by move_down), if lines_cleared after
\* the lock is at least level times lines_per_level, the level goes up by
\* exactly one and the drop interval goes down by level_speed_increase, not
\* below MIN_SPEED; otherwise the lock changes neither.
C17_LevelUpOnLock ==
  Playing(G) =>
    \A kind \in RandomKinds :
      /\ LevelRule(hard_drop(G, kind), RowsCompletedBy(Landed))
      /\ move_down(G, kind).locked =>
           LevelRule(move_down(G, kind).g, RowsCompletedBy(current_tetromino))

\* in a session with 6 lines per level a lock has just cleared the rows that
\* reach the threshold of level 2: the level is 3 and the interval was cut
\* by level_speed_increase
C17_Witness ==
  /\ last_op \in LockOps
  /\ grid = EmptyGrid
  /\ level = 3
  /\ lines_cleared = 12
  /\ lines_per_level = 6
  /\ speed = 1500

\* C18: between restarts no step makes score, lines_cleared or level
\* smaller.
C18_ScoreLinesLevelMonotone ==
  [][ last_op' /= "restart" =>
        /\ score' >= score
        /\ lines_cleared' >= lines_cleared
        /\ level' >= level ]_vars

\* a lock of the default session has just raised score, lines_cleared and
\* level together
C18_Witness ==
  /\ last_op \in LockOps
  /\ lines_per_level = 10
  /\ level = 2
  /\ lines_cleared = 12
  /\ score = 2400

\* C19: in every reachable state the drop interval is at least MIN_SPEED,
\* and between restarts no step makes it larger.
C19_SpeedFloor ==
  [][ /\ speed >= MIN_SPEED
      /\ speed' >= MIN_SPEED
      /\ last_op' /= "restart" => speed' <= speed ]_vars

\* the game and the time since the last drop that a tick in play gives when
\* it reads the time since: at or above the drop interval one move_down (with
\* draw kind), the interval cut by speed_increase but not below MIN_SPEED,
\* and the time since the last drop 0; below the interval no change
TickRule(since, kind) ==
  IF since >= speed
  THEN LET down == move_down(G, kind).g
       IN  [g |-> [down EXCEPT !.speed =
                     Larger(MIN_SPEED, down.speed - speed_increase)],
            since |-> 0]
  ELSE [g |-> G, since |-> since]

\* C20: a tick in play with accumulated time at least the drop interval does
\* exactly one move_down, resets the accumulated time and cuts the drop
\* interval by speed_increase, not below MIN_SPEED; a tick in play with less
\* accumulated time changes nothing.  Stated for the loop body and for
\* update, and for every step of the game loop under the tracked clock.
C20_TickDropsOnce ==
  /\ [](Playing(G) =>
          \A kind \in RandomKinds, since \in {elapsed, Slept} :
            /\ loop_body(G, since, kind) = TickRule(since, kind)
            /\ update(G, since, kind) = TickRule(since, kind))
  /\ [][ (ClockTick /\ Playing(G)) =>
           \E kind \in RandomKinds :
             /\ G' = TickRule(Slept, kind).g
             /\ elapsed' = TickRule(Slept, kind).since ]_vars

\* the loop of the default session has just made its first timed drop: the
\* piece is one row down, the interval is cut, no time has accumulated
C20_Witness ==
  /\ drops = 1
  /\ elapsed = 0
  /\ speed = 9995
  /\ last_op = "step"
  /\ current_tetromino.y = 1
  /\ Playing(G)

\* game after is game G after the lock sequence on the current piece where
\* it is: the piece committed to the board, full rows cleared, score, lines
\* and level updated, the previewed piece made current, can_hold true
LockSequenceRan(after) ==
  LET placed == place_tetromino(grid, current_tetromino).grid
      n == Cardinality({ y \in Rows : RowFull(placed, y) })
  IN  /\ after.grid = clear_lines(placed).grid
      /\ after.score = score + PointsTable(n) * level
      /\ after.lines_cleared = lines_cleared + n
      /\ LevelRule(after, n)
      /\ after.current_tetromino.shape_type = next_tetromino.shape_type
      /\ after.can_hold

\* C21: move_down in play: if the piece is valid one row lower it moves down
\* by exactly one row, nothing else changes and the call reports no lock;
\* otherwise the piece keeps its position, the lock sequence runs and the
\* call reports a lock.
C21_MoveDownStepsOrLocks ==
  Playing(G) =>
    \A kind \in RandomKinds :
      LET down == move_down(G, kind)
          lower == move(current_tetromino, 0, 1)
      IN  IF is_valid_position(grid, lower)
          THEN /\ ~down.locked
               /\ down.g = [G EXCEPT !.current_tetromino = lower]
          ELSE /\ down.locked
               /\ LockSequenceRan(down.g)

\* game after is what a sideways move by dx gives from the current state: x
\* changed by dx if the piece is valid there, otherwise nothing changed; kind,
\* y and rotation as before
SidewaysRule(after, dx) ==
  /\ IF is_valid_position(grid, move(current_tetromino, dx, 0))
     THEN after.current_tetromino.x = current_tetromino.x + dx
     ELSE after = G
  /\ after.current_tetromino.y = current_tetromino.y
  /\ after.current_tetromino.rotation = current_tetromino.rotation
  /\ after.current_tetromino.shape_type = current_tetromino.shape_type

\* C22: move_left and move_right in play change the current piece's x by
\* exactly -1 or +1 when the resulting position is valid and otherwise leave
\* the piece and all other state as before; y and rotation never change.
\* Stated for the methods and for their keys.
C22_SidewaysByOneOrNothing ==
  Playing(G) =>
    /\ SidewaysRule(move_left(G), -1)
    /\ SidewaysRule(move_right(G), 1)
    /\ SidewaysRule(handle_input(G, KEY_LEFT, NoDraw, NoDraw), -1)
    /\ SidewaysRule(handle_input(G, KEY_RIGHT, NoDraw, NoDraw), 1)

\* the first piece of a game has been moved left to the wall: a further move
\* left is refused and a move right is possible
C22_Witness ==
  /\ Playing(G)
  /\ last_op = "step"
  /\ grid = EmptyGrid
  /\ current_tetromino.y = START_Y
  /\ current_tetromino.x = START_X - 1
  /\ ~is_valid_position(grid, move(current_tetromino, -1, 0))
  /\ is_valid_position(grid, move(current_tetromino, 1, 0))

\* the anchors rotate may give the piece, in the order it tries them: the
\* anchor before the call, then one left, one right and one up of it
RotateCandidates == << <<0, 0>>, <<-1, 0>>, <<1, 0>>, <<0, -1>> >>

\* the current piece turned once clockwise with its anchor moved by offset d
\* from the anchor before the call
Turned(d) ==
  [current_tetromino EXCEPT !.rotation = (@ + 1) % 4,
                            !.x = @ + d[1], !.y = @ + d[2]]

\* the candidates at which the turned piece is valid
ValidCandidates ==
  { i \in 1..Len(RotateCandidates) :
      is_valid_position(grid, Turned(RotateCandidates[i])) }

\* C23: rotate in play gives the piece turned once clockwise at the first
\* valid candidate among the anchor before the call and that anchor plus
\* (-1,0), (1,0), (0,-1), in that order; (-1,-1) and (1,-1) are never
\* applied; with no valid candidate x, y and rotation are as before.
C23_RotateFirstValidKick ==
  Playing(G) =>
    LET after == rotate(G).current_tetromino
    IN  IF ValidCandidates = {}
        THEN after = current_tetromino
        ELSE after = Turned(RotateCandidates[
                       CHOOSE i \in ValidCandidates :
                         \A j \in ValidCandidates : i <= j])

\* a piece that was turned before stands where the turn in place and the
\* kicks left, right and up are all invalid while a kick (-1,-1) or (1,-1)
\* would be valid: rotate leaves it as it is
C23_Witness ==
  /\ Playing(G)
  /\ current_tetromino.rotation /= 0
  /\ is_valid_position(grid, current_tetromino)
  /\ ValidCandidates = {}
  /\ \/ is_valid_position(grid, Turned(<<-1, -1>>))
     \/ is_valid_position(grid, Turned(<<1, -1>>))
  /\ rotate(G) = G

\* an I piece in play with its anchor in the leftmost column
IAtLeftWall ==
  /\ Playing(G)
  /\ current_tetromino.shape_type = "I"
  /\ current_tetromino.x = 0

BlockedCell(t) ==
  \E c \in get_coords(t) :
    \/ c[1] < 0
    \/ c[1] >= BOARD_WIDTH
    \/ c[2] >= BOARD_HEIGHT
    \/ (c[2] >= 0 /\ grid[c[2]][c[1]] /= "None")

\* C25: is_valid_position(piece) is false exactly when some cell of the
\* piece has x outside [0, width), or y >= height, or has y >= 0 and lies on
\* an Occupied cell; a piece whose only cells outside the grid have y < 0 is
\* reported valid.
C25_ValidUnlessBlocked ==
  \A t \in PieceInputs : is_valid_position(grid, t) <=> ~BlockedCell(t)

\* the cells of the board, as <<x, y>>
Cells == Cols \X Rows

\* C26: place_tetromino on an invalid position returns false and leaves
\* every board cell unchanged; on a valid position it returns true, sets
\* exactly the piece's cells to the piece's kind and leaves every other cell
\* unchanged.  Stated for every piece that BoardPlace may pass to the board.
C26_PlaceAllOrNothing ==
  locks < MaxLocks =>
    \A t \in PieceInputs :
      LET placed == place_tetromino(grid, t)
      IN  IF ~is_valid_position(grid, t)
          THEN /\ ~placed.ok
               /\ placed.grid = grid
          ELSE /\ placed.ok
               /\ { c \in Cells : placed.grid[c[2]][c[1]] /= grid[c[2]][c[1]] }
                    = get_coords(t)
               /\ \A c \in get_coords(t) :
                    placed.grid[c[2]][c[1]] = t.shape_type

\* a T piece has just been placed on a board that held cells of other kinds
C26_Witness ==
  /\ last_op = "place"
  /\ Cardinality({ c \in Cells : grid[c[2]][c[1]] = "T" }) = 4
  /\ \E c \in Cells : grid[c[2]][c[1]] \in {"I", "J", "L"}

\* the rows of the board that are full
FullRows == { y \in Rows : RowFull(grid, y) }

\* a row with an Empty cell
NotFull(row) == \E x \in Cols : row[x] = "None"

\* the rows of the board that are not full, from the top down
KeptRows == SelectSeq([i \in 1..BOARD_HEIGHT |-> grid[i - 1]], NotFull)

\* C27: clear_lines keeps the board's width and height and keeps all rows
\* that are not full, with their contents and in their order from the top
\* down, at the bottom beneath the empty rows put in.
C27_ClearKeepsOtherRows ==
  LET after == clear_lines(grid).grid
      n == Cardinality(FullRows)
  IN  /\ DOMAIN after = Rows
      /\ \A y \in Rows : DOMAIN after[y] = Cols
      /\ Len(KeptRows) = BOARD_HEIGHT - n
      /\ \A y \in Rows :
           after[y] = IF y < n THEN EmptyRow ELSE KeptRows[y - n + 1]

\* clear_lines has just removed two full rows from a board under test: its
\* two partial rows lie at the bottom in their order, beneath empty rows
C27_Witness ==
  /\ last_op = "clear_lines"
  /\ locks = MaxLocks - 1
  /\ lines_cleared = 2
  /\ grid[BOARD_HEIGHT - 2][0] = "J"
  /\ grid[BOARD_HEIGHT - 1][0] = "None"
  /\ grid[BOARD_HEIGHT - 1][1] = "L"
  /\ \A y \in 0..(BOARD_HEIGHT - 3) : grid[y] = EmptyRow

\* C28: clear_lines returns exactly the number of rows that were full before
\* the call, whether those are adjacent, apart, none or all rows of the
\* board; after the call no row is full and the top rows, as many as the
\* count returned, are empty.
C28_ClearCountsFullRows ==
  LET cleared == clear_lines(grid)
  IN  /\ cleared.lines_cleared = Cardinality(FullRows)
      /\ \A y \in Rows : ~RowFull(cleared.grid, y)
      /\ \A y \in Rows : y < cleared.lines_cleared => cleared.grid[y] = EmptyRow

\* clear_lines has just removed every row of a board whose rows were all
\* full
C28_Witness ==
  /\ last_op = "clear_lines"
  /\ locks = MaxLocks - 1
  /\ lines_cleared = BOARD_HEIGHT
  /\ grid = EmptyGrid

\* game after is G after a lock that drew kind: its current piece has the
\* kind that was previewed, and the preview is a new piece of the kind drawn
PreviewTaken(after, kind) ==
  /\ after.current_tetromino.shape_type = next_tetromino.shape_type
  /\ after.next_tetromino = Tetromino(kind, 0, 0, 0)
  /\ ~after.next_is_current

\* C29: the piece that becomes current after a lock has the kind that was
\* exposed as the next piece immediately before that lock, and a new next
\* piece is chosen at that lock.  Stated for a lock by hard_drop, by
\* move_down and by the timed drop of the game loop.
C29_NextBecomesCurrent ==
  Playing(G) =>
    \A kind \in RandomKinds :
      /\ PreviewTaken(hard_drop(G, kind), kind)
      /\ move_down(G, kind).locked =>
           /\ PreviewTaken(move_down(G, kind).g, kind)
           /\ PreviewTaken(loop_body(G, speed, kind).g, kind)

\* a piece has just been locked after a hold: the piece that was previewed
\* is in play and a piece of another kind is previewed
C29_Witness ==
  /\ last_op \in LockOps
  /\ hold_tetromino /= NoneT
  /\ ~next_is_current
  /\ next_tetromino = Tetromino(next_tetromino.shape_type, 0, 0, 0)
  /\ next_tetromino.shape_type /= current_tetromino.shape_type

\* C30: for every kind and starting rotation, four clockwise rotations give
\* back the original rotation index, a clockwise rotation followed by a
\* counter-clockwise one, and the reverse, give it back (from index 0 too),
\* and the rotation index stays in 0..3.
C30_RotationsWrap ==
  LET t == current_tetromino
  IN  /\ rotate_clockwise(rotate_clockwise(
           rotate_clockwise(rotate_clockwise(t)))) = t
      /\ rotate_counterclockwise(rotate_clockwise(t)) = t
      /\ rotate_clockwise(rotate_counterclockwise(t)) = t
      /\ t.rotation \in 0..3
      /\ rotate_clockwise(t).rotation \in 0..3
      /\ rotate_counterclockwise(t).rotation \in 0..3

\* a piece at rotation index 0 has just been turned counter-clockwise
C30_Witness ==
  /\ last_op = "rotate_counterclockwise"
  /\ current_tetromino.rotation = 3
  /\ rotate_clockwise(current_tetromino).rotation = 0

\* the coordinates passed to the accessors: the grid, a cell outside it on
\* each side, and coordinates further away than the grid is wide or high
AccessorXs == (-BOARD_WIDTH - 1)..(BOARD_WIDTH + 1)
AccessorYs == (-BOARD_HEIGHT - 1)..(BOARD_HEIGHT + 1)

Committed(t) ==
  /\ place_tetromino(grid, t).ok
  /\ \A c \in get_coords(t) :
       /\ c[1] \in Cols /\ c[2] \in Rows
       /\ place_tetromino(grid, t).grid[c[2]][c[1]] = t.shape_type

\* the piece hard_drop hands to _lock_tetromino: the current piece at the
\* ghost's anchor
DroppedPiece ==
  [current_tetromino EXCEPT !.x = ghost_tetromino.x, !.y = ghost_tetromino.y]

\* C32: every lock commits the current piece to the board: whenever move_down
\* locks (the piece is not valid one row lower) and whenever hard_drop locks,
\* place_tetromino succeeds and the four cells of the piece hold its kind
\* before rows are cleared.
C32_LockCommitsPiece ==
  Playing(G) =>
    /\ move_down(G, "I").locked => Committed(current_tetromino)
    /\ Committed(DroppedPiece)

\* the games a key that moves the current piece without locking it leads to
MovedWithoutLock ==
  { move_left(G), move_right(G), rotate(G) } \cup
  { move_down(G, k).g : k \in { kind \in RandomKinds :
                                  ~move_down(G, kind).locked } }

\* the games a lock of the current piece leads to
AfterLock ==
  { hard_drop(G, k) : k \in RandomKinds } \cup
  { move_down(G, k).g : k \in { kind \in RandomKinds :
                                  move_down(G, kind).locked } }

\* C33: the current piece and the previewed piece are distinct objects in
\* every reachable state: moving, rotating or lowering the current piece
\* leaves the previewed piece's anchor and rotation as they are, and the piece
\* a lock makes current is the preview as it was, at its spawn anchor, not the
\* locked piece at the place it landed.
C33_CurrentAndNextDistinct ==
  /\ ~next_is_current
  /\ Playing(G) =>
       /\ \A after \in MovedWithoutLock :
            after.next_tetromino = next_tetromino
       /\ \A after \in AfterLock :
            after.current_tetromino = next_tetromino

\* game `after` differs from the current state in nothing but the current
\* piece and its ghost
OnlyPieceChanged(after) ==
  /\ after.grid = grid
  /\ after.score = score
  /\ after.level = level
  /\ after.lines_cleared = lines_cleared
  /\ after.speed = speed
  /\ after.next_tetromino = next_tetromino
  /\ after.hold_tetromino = hold_tetromino
  /\ after.can_hold = can_hold
  /\ after.paused = paused
  /\ after.game_over = game_over

\* C34: move_left, move_right, rotate and a move_down that does not lock
\* leave the board cells, score, level, lines_cleared, drop interval, next
\* piece, held piece, can_hold, paused and game_over as they were.
C34_MovesChangeOnlyPiece ==
  /\ OnlyPieceChanged(move_left(G))
  /\ OnlyPieceChanged(move_right(G))
  /\ OnlyPieceChanged(rotate(G))
  /\ \A kind \in RandomKinds :
       ~move_down(G, kind).locked => OnlyPieceChanged(move_down(G, kind).g)

\* C35: between operations the board has no full row: a lock clears every row
\* the locked piece completed before the next piece spawns.
C35_NoFullRowAtRest ==
  \A y \in Rows : ~RowFull(grid, y)

\* one lock has cleared two rows the piece completed at once and left the
\* piece's other cells and cells of earlier pieces on the board
C35_Witness ==
  /\ last_op \in LockOps
  /\ locks = MaxLocks
  /\ lines_cleared = 2
  /\ score = POINTS_DOUBLE * level
  /\ grid /= EmptyGrid
  /\ \A y \in Rows : ~RowFull(grid, y)

\* the level that goes with the lines cleared in game g
LevelOfLines(g) == 1 + g.lines_cleared \div g.lines_per_level

\* C36: in a game started at level 1 with the default 10 lines per level
\* (of the sessions, those with 10 lines per level, and every session once
\* restarted), level = 1 + floor(lines_cleared / lines_per_level) after every
\* lock: the one level-up test per lock keeps up with the lines cleared.
C36_LevelFollowsLines ==
  lines_per_level = LINES_PER_LEVEL =>
    /\ level = LevelOfLines(G)
    /\ Playing(G) =>
         \A kind \in RandomKinds :
           /\ hard_drop(G, kind).level = LevelOfLines(hard_drop(G, kind))
           /\ move_down(G, kind).g.level =
                LevelOfLines(move_down(G, kind).g)

\* a lock has taken the lines cleared past 10 with 10 lines per level: the
\* level went from 1 to 2
C36_Witness ==
  /\ last_op \in LockOps
  /\ locks = MaxLocks
  /\ lines_per_level = LINES_PER_LEVEL
  /\ lines_cleared >= LINES_PER_LEVEL
  /\ level = 2

\* C37: gravity survives a restart: whenever a game is not over, also a game
\* begun by a restart after a game over, the drop loop that moves its piece
\* down and locks it has not returned. (Nothing enters game_loop a second
\* time; once loop_running is false no timed drop ever happens again.)
C37_GravitySurvivesRestart ==
  ~game_over => loop_running

====
